---- MODULE Spec2Model ----
(***************************************************************************)
(* A model of three plugin modules of moog_spriteworld:                    *)
(*   moog/action_spaces/select_move.py   SelectMove                        *)
(*   moog/tasks/l2_reward.py             L2Reward                          *)
(*   moog/env_wrappers/gym_wrapper.py    GymWrapper                        *)
(* The three objects share no state, so each gets a specification of its   *)
(* own over the variables it owns; the variables of the other two objects  *)
(* stay at their constructed value.                                        *)
(*                                                                         *)
(* Numbers.  Arena coordinates, velocities, distances and rewards are      *)
(* floats in the source.  The model works on a grid of exactly             *)
(* representable values: a SelectMove coordinate c stands for c/2 (so 0    *)
(* and 2 are the arena's edges 0.0 and 1.0), every motion is then an even  *)
(* integer and the division by a mass of 1 or 2 is exact.  L2Reward        *)
(* lengths are in hundredths (5 stands for 0.05).                          *)
(***************************************************************************)
EXTENDS Integers, Sequences, FiniteSets, TLC

VARIABLES
    \* ---- SelectMove ----
    state,            \* layer name -> sequence of sprites (the `state` argument)
    scale,            \* self._scale
    instant_move,     \* self._instant_move
    noise_scale,      \* self._noise_scale (0 stands for None: both are falsy)
    action_layers,    \* self._action_layers
    last_step,        \* history: what the latest step() call did
    \* ---- L2Reward ----
    steps_until_reset,         \* self._steps_until_reset
    has_made_contact,          \* self._has_made_contact
    reset_steps_after_contact, \* self._reset_steps_after_contact
    l2_call,                   \* the latest reward() call since reset(): its
                               \* arguments and what it returned
    reward_calls,              \* history: reward() calls since reset(), saturating
    contact_age,               \* history: reward() calls that followed the first
                               \* call with contact since reset() (-1: none yet)
    \* ---- GymWrapper ----
    last_render,      \* self._last_render
    rendered_frames,  \* self._rendered_frames
    env_obs           \* the wrapped environment: the observation it last returned

smVars  == <<state, scale, instant_move, noise_scale, action_layers, last_step>>
l2Vars  == <<steps_until_reset, has_made_contact, reset_steps_after_contact,
             l2_call, reward_calls, contact_age>>
gymVars == <<last_render, rendered_frames, env_obs>>
vars    == <<smVars, l2Vars, gymVars>>

None == "None"
\* Python's None where a sprite handle is expected.
NoSprite == << >>

(***************************************************************************)
(* Bounds of the model.                                                    *)
(***************************************************************************)
\* Largest absolute value of a velocity component a step may produce.
MaxVel == 2
\* reward() calls that may follow the first call with contact before reset().
MaxAge == 4
\* The value at which the count of reward() calls since reset() saturates.
MaxCount == 3
\* render() calls per episode: the length _rendered_frames may reach.
MaxFrames == 3

(***************************************************************************)
(* Vectors: numpy's element-wise arithmetic on arrays of shape (2,).       *)
(***************************************************************************)
VecAdd(a, b) == <<a[1] + b[1], a[2] + b[2]>>
VecSub(a, b) == <<a[1] - b[1], a[2] - b[2]>>
VecMul(a, k) == <<a[1] * k, a[2] * k>>
\* a / k, exact on the model's grid (every motion is even, k is 1 or 2).
VecDiv(a, k) == <<a[1] \div k, a[2] \div k>>
Abs(x) == IF x < 0 THEN -x ELSE x

(***************************************************************************)
(* SelectMove                                                              *)
(***************************************************************************)
Layers == {"agent", "target", "walls"}
Coord  == {0, 2}
\* The action vectors of action_spec(): shape (4,), each component in [0, 1].
Actions == Coord \X Coord \X Coord \X Coord

\* A sprite of the external sprite library: position, velocity, mass and the set
\* of points its contains_point() accepts (its shape, which need not be centred
\* on, or even include, its position).
Sprite(p, m, sh) == [position |-> p, velocity |-> <<0, 0>>, mass |-> m, shape |-> sh]

\* Two arenas.  In the first, the two agent sprites overlap at (2,0) (same
\* layer), the target sprite overlaps them at (2,0) and (0,0) (across layers),
\* and the wall overlaps the first agent at (0,0).  In the second, the agent
\* layer holds one sprite and the target layer is empty.
StateA ==
    [l \in Layers |->
        CASE l = "agent"  -> << Sprite(<<0, 0>>, 1, {<<0, 0>>, <<2, 0>>}),
                                Sprite(<<2, 0>>, 2, {<<2, 0>>}) >>
          [] l = "target" -> << Sprite(<<2, 2>>, 1, {<<2, 2>>, <<2, 0>>, <<0, 0>>}) >>
          [] l = "walls"  -> << Sprite(<<0, 2>>, 1, {<<0, 2>>, <<0, 0>>}) >>]
StateB ==
    [l \in Layers |->
        CASE l = "agent"  -> << Sprite(<<2, 2>>, 2, {<<2, 2>>, <<0, 2>>}) >>
          [] l = "target" -> << >>
          [] l = "walls"  -> << Sprite(<<2, 2>>, 1, {<<2, 2>>}) >>]

\* select_move.py:46-48: a single layer name becomes a one-element tuple.
ActionLayerChoices == { <<"agent">>, <<"agent", "target">>, <<"target", "agent">> }

\* The latest step() call: whether it hit a sprite, the position it selected
\* (noised_action[:2]), the target (noised_action[2:]), the sprite it hit and
\* the state before the call; and, for two hits in a row without noise and
\* without instant_move, the target of the hit before it and the velocity the
\* hit sprite had before that one.
NoStep == [kind |-> "none", position |-> <<0, 0>>, target |-> <<0, 0>>,
           sprite |-> NoSprite, before |-> [l \in Layers |-> << >>],
           prev_sprite |-> NoSprite, prev_target |-> <<0, 0>>,
           prev_vel_before |-> <<0, 0>>]

SMInit ==
    /\ state \in {StateA, StateB}
    /\ scale \in {1, 2}
    /\ instant_move \in BOOLEAN
    /\ noise_scale \in {0, 2}
    /\ action_layers \in ActionLayerChoices
    /\ noise_scale # 0 => (scale = 1 /\ action_layers = <<"agent", "target">>)
    /\ last_step = NoStep

\* select_move.py:51-54
get_motion(action, sprite) == VecSub(action, sprite.position)

\* Samples np.random.normal may return for a configured noise scale, on the
\* model's grid: each component is -noise_scale, 0 or +noise_scale.  Six of
\* the 81 such vectors: no noise, one on each component, and one on three.
NoiseSamples ==
    { <<0, 0, 0, 0>>,
      <<noise_scale, 0, 0, 0>>, <<0, -noise_scale, 0, 0>>,
      <<0, 0, -noise_scale, 0>>, <<0, 0, 0, noise_scale>>,
      <<-noise_scale, 0, noise_scale, -noise_scale>> }

\* select_move.py:56-62
apply_noise_to_action(action, noise) ==
    IF noise_scale # 0
    THEN <<action[1] + noise[1], action[2] + noise[2],
           action[3] + noise[3], action[4] + noise[4]>>
    ELSE action

\* A sprite handle: the layer and the index of the sprite in that layer.
SpriteAt(ref) == state[ref[1]][ref[2]]

\* sprite.contains_point(position) of the external sprite library.
contains_point(sprite, position) == position \in sprite.shape

\* select_move.py:89-92: the sprites of the action layers, layer by layer.
RECURSIVE CollectSprites(_, _)
CollectSprites(layers, k) ==
    IF k > Len(layers) THEN << >>
    ELSE [i \in 1..Len(state[layers[k]]) |-> <<layers[k], i>>]
         \o CollectSprites(layers, k + 1)

\* A forward scan: the first containing sprite wins.
RECURSIVE ForwardScan(_, _, _)
ForwardScan(position, sprites, i) ==
    IF i > Len(sprites) THEN NoSprite
    ELSE IF contains_point(SpriteAt(sprites[i]), position) THEN sprites[i]
    ELSE ForwardScan(position, sprites, i + 1)
get_sprite_forward(position, sprites) == ForwardScan(position, sprites, 1)

\* select_move.py:64-68: scan sprites[::-1], return the first that contains the
\* position, None when there is none.
RECURSIVE ReverseScan(_, _, _)
ReverseScan(position, sprites, i) ==
    IF i = 0 THEN NoSprite
    ELSE IF contains_point(SpriteAt(sprites[i]), position) THEN sprites[i]
    ELSE ReverseScan(position, sprites, i - 1)
get_sprite_from_position(position, sprites) ==
    ReverseScan(position, sprites, Len(sprites))

\* The velocity always accumulates, whatever instant_move says.
new_velocity_accumulating(sprite, motion) ==
    VecAdd(sprite.velocity, VecMul(VecDiv(motion, sprite.mass), scale))

\* The velocity is always overwritten, whatever instant_move says.
new_velocity_overwriting(sprite, motion) ==
    VecMul(VecDiv(motion, sprite.mass), scale)

\* select_move.py:105-108
new_velocity(sprite, motion) ==
    IF ~instant_move
    THEN VecAdd(sprite.velocity, VecMul(VecDiv(motion, sprite.mass), scale))
    ELSE VecMul(VecDiv(motion, sprite.mass), scale)

InVelRange(v) == Abs(v[1]) <= MaxVel /\ Abs(v[2]) <= MaxVel

\* The state with the velocity of sprite `ref` set to v.
WithVelocity(ref, v) ==
    [state EXCEPT ![ref[1]][ref[2]].velocity = v]

\* The step also writes the velocity of the first sprite of the "walls" layer.
StateAfterHitTouchingWalls(ref, v) ==
    [state EXCEPT ![ref[1]][ref[2]].velocity = v,
                  !["walls"][1].velocity = v]

\* select_move.py:102-108: the state after a step that hit sprite `ref`.
StateAfterHit(ref, v) == WithVelocity(ref, v)

\* The state after a step that hit nothing, had it zeroed every velocity.
StateAfterMissZeroing ==
    [l \in Layers |->
        [i \in 1..Len(state[l]) |-> [state[l][i] EXCEPT !.velocity = <<0, 0>>]]]

\* select_move.py:102: clicked_sprite is None, nothing is written.
StateAfterMiss == state

\* select_move.py:70-109: step(state, action), with `noise` the sample drawn by
\* apply_noise_to_action.
Step(action, noise) ==
    LET noised_action  == apply_noise_to_action(action, noise)
        position       == <<noised_action[1], noised_action[2]>>
        target         == <<noised_action[3], noised_action[4]>>
        sprites        == CollectSprites(action_layers, 1)
        clicked_sprite == get_sprite_from_position(position, sprites)
        tracked        == ~instant_move /\ noise_scale = 0
    IN  IF clicked_sprite # NoSprite
        THEN LET motion == get_motion(target, SpriteAt(clicked_sprite))
                 v      == new_velocity(SpriteAt(clicked_sprite), motion)
             IN  /\ InVelRange(v)
                 /\ state' = StateAfterHit(clicked_sprite, v)
                 /\ last_step' =
                        [kind |-> "hit", position |-> position,
                         target |-> target, sprite |-> clicked_sprite,
                         before |-> state,
                         prev_sprite |->
                            IF tracked THEN last_step.sprite ELSE NoSprite,
                         prev_target |->
                            IF tracked THEN last_step.target ELSE <<0, 0>>,
                         prev_vel_before |->
                            IF tracked /\ last_step.kind = "hit"
                            THEN last_step.before[last_step.sprite[1]]
                                                 [last_step.sprite[2]].velocity
                            ELSE <<0, 0>>]
        ELSE /\ state' = StateAfterMiss
             /\ last_step' = [NoStep EXCEPT !.kind = "miss",
                                            !.position = position,
                                            !.target = target,
                                            !.before = state]

SelectMove_step ==
    /\ \E action \in Actions : \E noise \in NoiseSamples : Step(action, noise)
    /\ UNCHANGED <<scale, instant_move, noise_scale, action_layers>>
    /\ UNCHANGED <<l2Vars, gymVars>>

\* select_move.py:112-113: reset(state) does nothing.
SelectMove_reset ==
    /\ UNCHANGED vars

(***************************************************************************)
(* SelectMove: the claims.  Each is stated over the state before the       *)
(* latest step() call (last_step.before), the state after it (state) and   *)
(* the selected position and target of that call.                          *)
(***************************************************************************)
Stepped == last_step.kind # "none"

\* Every sprite handle of a state.
Refs(st) == {ref \in Layers \X (1..2) : ref[2] <= Len(st[ref[1]])}
Vel(st, ref) == st[ref[1]][ref[2]].velocity

\* The place of a layer in the configured action layers (0: not configured).
LayerPlace(l) ==
    IF \E k \in 1..Len(action_layers) : action_layers[k] = l
    THEN CHOOSE k \in 1..Len(action_layers) : action_layers[k] = l
    ELSE 0
\* The sprites of the configured action layers that contain the point.
Containing(st, point) ==
    {ref \in Refs(st) : LayerPlace(ref[1]) > 0
                        /\ point \in st[ref[1]][ref[2]].shape}
\* r comes before w in the flattened candidate sequence.
ComesBefore(r, w) ==
    \/ LayerPlace(r[1]) < LayerPlace(w[1])
    \/ r[1] = w[1] /\ r[2] < w[2]
\* (t - p) / m * scale for the sprite `ref` of state st and target t.
Contribution(st, ref, t) ==
    LET s == st[ref[1]][ref[2]]
    IN  << ((t[1] - s.position[1]) \div s.mass) * scale,
           ((t[2] - s.position[2]) \div s.mass) * scale >>
Changed == {ref \in Refs(state) : Vel(state, ref) # Vel(last_step.before, ref)}

\* C1: when more than one sprite of the configured action layers contains the
\* selected position, the sprite that step() updates is the one latest in the
\* flattened candidate sequence, and no earlier containing sprite is changed.
C1_LatestContainingSpriteIsUpdated ==
    Stepped =>
        LET b  == last_step.before
            cs == Containing(b, last_step.position)
        IN  Cardinality(cs) > 1 =>
                \E w \in cs :
                    /\ \A r \in cs \ {w} : ComesBefore(r, w)
                    /\ last_step.sprite = w
                    /\ Vel(state, w) =
                         IF instant_move
                         THEN Contribution(b, w, last_step.target)
                         ELSE VecAdd(Vel(b, w),
                                     Contribution(b, w, last_step.target))
                    /\ \A r \in cs \ {w} : Vel(state, r) = Vel(b, r)

\* C1's case: a step selected a position that several candidates contain and
\* changed the velocity of the latest of them.
C1_Witness ==
    /\ Stepped
    /\ Cardinality(Containing(last_step.before, last_step.position)) > 1
    /\ Changed = {last_step.sprite}

\* C2: when no sprite of the configured action layers contains the selected
\* position, every sprite's velocity is the same after step() as before it.
C2_MissLeavesVelocitiesUnchanged ==
    (Stepped /\ Containing(last_step.before, last_step.position) = {}) =>
        \A ref \in Refs(last_step.before) :
            Vel(state, ref) = Vel(last_step.before, ref)

\* C2's case: a step missed every candidate although a sprite of a layer that
\* is not an action layer contains the position, with some sprite moving.
C2_Witness ==
    /\ Stepped
    /\ Containing(last_step.before, last_step.position) = {}
    /\ \E ref \in Refs(last_step.before) :
            last_step.position \in last_step.before[ref[1]][ref[2]].shape
    /\ \E ref \in Refs(state) : Vel(state, ref) # <<0, 0>>

Inf    == [kind |-> "inf", n |-> 0]
Fin(n) == [kind |-> "fin", n |-> n]
Unset  == [kind |-> "unset", n |-> 0]

\* x - 1 in IEEE arithmetic: inf - 1 is inf.
MinusOne(x) == IF x.kind = "inf" THEN Inf ELSE Fin(x.n - 1)
\* x < 0 in IEEE arithmetic: inf < 0 is false.
LessThanZero(x) == x.kind = "fin" /\ x.n < 0

\* l2_reward.py:24-25, in hundredths: terminate_distance = 0.05 and
\* raw_reward_multiplier = 5.
terminate_distance == 5
raw_reward_multiplier == 5

\* l2_reward.py:47-53: a single layer name becomes a one-element list.
layers_0 == <<"agent">>
layers_1 == <<"target">>

\* The sprites a state may hold, in hundredths of the arena: a position and the
\* cells the sprite's shape covers (overlaps_sprite is the sprite library's).
L2Sprite(p, sh) == [position |-> p, shape |-> sh]
AgentSprites  == { L2Sprite(<<0, 0>>, {1}), L2Sprite(<<3, 4>>, {1, 2}),
                   L2Sprite(<<3, 0>>, {2}) }
TargetSprites == { L2Sprite(<<0, 0>>, {1}), L2Sprite(<<0, 4>>, {3}) }
SeqsUpTo2(S) == {<<x>> : x \in S} \cup {<<x, y>> : x \in S, y \in S}
\* The `state` arguments of reward(): each layer holds one or two sprites.
L2States == [agent : SeqsUpTo2(AgentSprites), target : SeqsUpTo2(TargetSprites)]

\* sprite_0.overlaps_sprite(sprite_1) of the external sprite library.
overlaps_sprite(s0, s1) == s0.shape \cap s1.shape # {}

\* The largest r with r * r <= n: np.sqrt, exact on the model's distances.
ISqrt(n) == CHOOSE r \in 0..n : r * r <= n /\ (r + 1) * (r + 1) > n

\* l2_reward.py:99-100: [s for k in layers for s in state[k]]
RECURSIVE L2Sprites(_, _, _)
L2Sprites(layers, st, k) ==
    IF k > Len(layers) THEN << >>
    ELSE st[layers[k]] \o L2Sprites(layers, st, k + 1)

\* l2_reward.py:75-79
single_sprite_reward(sprite, goal_position) ==
    LET dx            == sprite.position[1] - goal_position[1]
        dy            == sprite.position[2] - goal_position[2]
        goal_distance == ISqrt(dx * dx + dy * dy)
        raw_reward    == terminate_distance - goal_distance
    IN  raw_reward_multiplier * raw_reward

\* A counter that starts finite, as if a step budget.
initial_steps_finite == Fin(1)

\* l2_reward.py:69: reset() sets the counter to np.inf.
initial_steps_until_reset == Inf

\* The countdown restarts on every call with contact.
steps_on_contact_restarting(steps, n) == n

\* The countdown starts at 0 on contact, whatever was configured.
steps_on_contact_immediate(steps, n) == IF steps = Inf THEN Fin(0) ELSE steps

\* l2_reward.py:106-108: the first contact since reset() starts the countdown.
steps_on_contact(steps, n) == IF steps = Inf THEN n ELSE steps

\* The reward is zeroed once contact has been made (l2_reward.py:114, which
\* is commented out).
masked_reward_by_contact(reward, should_reset) ==
    IF has_made_contact' THEN 0 ELSE reward

\* l2_reward.py:113: reward * (1 - int(should_reset))
masked_reward(reward, should_reset) ==
    reward * (1 - (IF should_reset THEN 1 ELSE 0))

\* No reward() call since reset() (or since construction).
NoCall == [kind |-> "none", state |-> [agent |-> << >>, target |-> << >>],
           reward |-> 0, should_reset |-> FALSE]

L2Init ==
    /\ reset_steps_after_contact \in {Inf, Fin(0), Fin(1), Fin(2)}
    /\ has_made_contact = FALSE
    /\ steps_until_reset = Unset
    /\ l2_call = NoCall
    /\ reward_calls = 0
    /\ contact_age = -1

\* l2_reward.py:68-70
L2Reward_reset ==
    /\ steps_until_reset' = initial_steps_until_reset
    /\ has_made_contact' = FALSE
    /\ l2_call' = NoCall
    /\ reward_calls' = 0
    /\ contact_age' = -1
    /\ UNCHANGED <<reset_steps_after_contact, smVars, gymVars>>

\* l2_reward.py:81-115: reward(state, meta_state, step_count).  Before the
\* first reset() the counter does not exist: the call raises AttributeError at
\* line 106 (after line 105 has run) or at line 110.
Reward(st) ==
    LET sprites_0  == L2Sprites(layers_0, st, 1)
        sprites_1  == L2Sprites(layers_1, st, 1)
        reward     == single_sprite_reward(sprites_0[1], sprites_1[1].position)
        contact    == overlaps_sprite(sprites_0[1], sprites_1[1])
        started    == IF contact
                      THEN steps_on_contact(steps_until_reset,
                                            reset_steps_after_contact)
                      ELSE steps_until_reset
        counted    == MinusOne(started)
        should_reset == LessThanZero(counted)
    IN  IF steps_until_reset = Unset
        THEN /\ has_made_contact' = (has_made_contact \/ contact)
             /\ l2_call' = [kind |-> "raised", state |-> st,
                            reward |-> 0, should_reset |-> FALSE]
             /\ UNCHANGED <<steps_until_reset, reward_calls, contact_age>>
        ELSE /\ contact_age < MaxAge
             /\ has_made_contact' = (has_made_contact \/ contact)
             /\ steps_until_reset' = counted
             /\ l2_call' = [kind |-> "returned", state |-> st,
                            reward |-> masked_reward(reward, should_reset),
                            should_reset |-> should_reset]
             /\ reward_calls' = IF reward_calls < MaxCount
                                THEN reward_calls + 1 ELSE reward_calls
             /\ contact_age' = IF contact_age >= 0 THEN contact_age + 1
                               ELSE IF contact THEN 0 ELSE -1

L2Reward_reward ==
    /\ \E st \in L2States : Reward(st)
    /\ UNCHANGED <<reset_steps_after_contact, smVars, gymVars>>

(***************************************************************************)
(* L2Reward: the claims, over the latest reward() call since reset().      *)
(***************************************************************************)
Returned == l2_call.kind = "returned"
\* The first layers_0 sprite and the first layers_1 sprite of the latest call.
First0 == l2_call.state[layers_0[1]][1]
First1 == l2_call.state[layers_1[1]][1]

C7_DefaultNeverResets ==
    (Returned /\ reset_steps_after_contact = Inf) => ~l2_call.should_reset

\* C7's case: the default, contact made, and calls after it up to the bound.
C7_Witness ==
    /\ Returned /\ reset_steps_after_contact = Inf
    /\ has_made_contact /\ contact_age = MaxAge
    /\ ~l2_call.should_reset

\* A run of reward() calls since reset(), none of them with contact, as long
\* as the call count can tell.
LongRunWithoutContact ==
    l2_call.kind = "returned" /\ reward_calls = MaxCount /\ contact_age = -1

\* C8 as stated: there is a sequence of reward() calls after reset(), none of
\* them with contact, that makes should_reset true.  The counter of such a
\* sequence depends on its length alone, so the statement says that calls
\* without contact, once they go on for ever after a reset(), come to return
\* should_reset.
C8_NoContactReachesReset ==
    <>[](LongRunWithoutContact /\ reset_steps_after_contact.kind = "fin")
        => <>(LongRunWithoutContact /\ l2_call.should_reset)

\* C8 amended: the decrement of line 110 runs on every call, but until the
\* first call with contact since reset() the counter is infinite and stays so
\* (inf - 1 = inf), and should_reset is false.
C8_NoResetBeforeContact ==
    (Returned /\ contact_age = -1) =>
        (steps_until_reset = Inf /\ ~l2_call.should_reset)

\* C8's case: a finite N, and the count of calls since reset() has saturated
\* without any contact.
C8_Witness ==
    /\ LongRunWithoutContact
    /\ reset_steps_after_contact = Fin(0)
    /\ ~l2_call.should_reset

SMIdle ==
    /\ state = [l \in Layers |-> << >>]
    /\ scale = 1
    /\ instant_move = FALSE
    /\ noise_scale = 0
    /\ action_layers = <<"agent">>
    /\ last_step = NoStep

L2Idle ==
    /\ steps_until_reset = Unset
    /\ has_made_contact = FALSE
    /\ reset_steps_after_contact = Inf
    /\ l2_call = NoCall
    /\ reward_calls = 0
    /\ contact_age = -1

(***************************************************************************)
(* GymWrapper                                                              *)
(***************************************************************************)
\* The images an 'image' observer may return.
Frames == {"f1", "f2", "f3"}
\* The observations of the wrapped environment: a dict over the keys of its
\* observers, which are fixed when the environment is built.
Observations ==
    [{"image"} -> Frames] \cup [{"state"} -> {"s"}]
        \cup [image : Frames, state : {"s"}]

\* gym_wrapper.py:110-111: _process_obs caches the 'image' observation.
last_render_after(obs) ==
    IF "image" \in DOMAIN obs THEN obs["image"] ELSE last_render

\* gym_wrapper.py:65-76: __init__ resets the environment itself and does not
\* process the observation.
GymInit ==
    /\ env_obs \in Observations
    /\ last_render = None
    /\ rendered_frames = << >>

\* gym_wrapper.py:149-158
GymWrapper_reset ==
    /\ \E obs \in Observations :
            /\ DOMAIN obs = DOMAIN env_obs
            /\ env_obs' = obs
            /\ rendered_frames' = << >>
            /\ last_render' = last_render_after(obs)
    /\ UNCHANGED <<smVars, l2Vars>>

\* gym_wrapper.py:122-147
GymWrapper_step ==
    /\ \E obs \in Observations :
            /\ DOMAIN obs = DOMAIN env_obs
            /\ env_obs' = obs
            /\ last_render' = last_render_after(obs)
    /\ UNCHANGED rendered_frames
    /\ UNCHANGED <<smVars, l2Vars>>

\* gym_wrapper.py:160-172: render() returns self._last_render.
GymWrapper_render ==
    /\ Len(rendered_frames) < MaxFrames
    /\ rendered_frames' = Append(rendered_frames, last_render)
    /\ UNCHANGED <<last_render, env_obs>>
    /\ UNCHANGED <<smVars, l2Vars>>

(***************************************************************************)
(* GymWrapper: the claim.                                                  *)
(***************************************************************************)
\* C9: render() is a no-op on the wrapper: a render() call leaves the cached
\* last frame and the list of recorded episode frames unchanged.
C9_RenderIsNoOp ==
    [][GymWrapper_render => UNCHANGED <<last_render, rendered_frames>>]_vars

GymIdle ==
    /\ last_render = None
    /\ rendered_frames = << >>
    /\ env_obs = [image |-> "f1"]

Init == SMInit /\ L2Idle /\ GymIdle
Next == SelectMove_step \/ SelectMove_reset
Spec == Init /\ [][Next]_vars

\* L2Reward alone.  The environment loop calls reward() once per step for as
\* long as it runs, which is the fairness of L2FairSpec.
L2InitAll == SMIdle /\ L2Init /\ GymIdle
L2Next == L2Reward_reset \/ L2Reward_reward
L2Spec == L2InitAll /\ [][L2Next]_vars
L2FairSpec == L2Spec /\ WF_vars(L2Reward_reward)

\* GymWrapper alone.
GymInitAll == SMIdle /\ L2Idle /\ GymInit
GymNext == GymWrapper_reset \/ GymWrapper_step \/ GymWrapper_render
GymSpec == GymInitAll /\ [][GymNext]_vars

====
